---------------------------- MODULE Spec2Model ----------------------------
(***************************************************************************)
(* Model of app/api/chat.py: the streaming /chat route.  One stream is the *)
(* async generator generate_stream_response: it emits a start event,       *)
(* creates the upstream client, feeds every non-empty upstream fragment to *)
(* process_token (the code-fence scanner) and ends with done or error.     *)
(*                                                                         *)
(* Text is modelled as a sequence of one-character strings, an event as    *)
(* the record that the chunk sender serialises.                            *)
(***************************************************************************)
EXTENDS Integers, Sequences, FiniteSets, TLC

VARIABLES
    pc,        \* position in generate_stream_response
    upstream,  \* chunks the upstream async iterator has still to yield
    client,    \* TRUE once get_llm_client() has returned
    index,     \* local index of generate_stream_response
    buffer,    \* the deque, as the sequence of its characters
    state,     \* the state dict: code_block_open, has_found_code
    events,    \* every event yielded by the generator so far, in order
    fed,       \* the fragments handed to process_token so far, in order
    pulled,    \* number of chunks the async for loop has taken so far
    exc,       \* message of the exception caught by the except clause
    streams    \* the locals of each of the calls that run concurrently

vars ==
    <<pc, upstream, client, index, buffer, state, events, fed, pulled, exc,
      streams>>

----------------------------------------------------------------------------
(* Bounds of the model                                                     *)

MaxChunks == 3      \* longest upstream script built from Vocabulary
MaxPieces == 3      \* most fragments a split of FencedText is cut into

----------------------------------------------------------------------------
(* Literals of the program                                                 *)

CODE_START_IDENTIFIER_SIZE == 11
CODE_END_IDENTIFIER_SIZE == 4

\* The backtick character.  A TLA+ string cannot hold a backtick, so the
\* character is written as a tilde, which no text of the model uses.
BT == "~"

\* three backticks, "python", newline: the identifier of the open marker
OpenMarker == <<BT, BT, BT, "p", "y", "t", "h", "o", "n", "\n">>
\* three backticks, newline: the identifier of the close marker
CloseMarker == <<BT, BT, BT, "\n">>

----------------------------------------------------------------------------
(* Python string primitives                                                *)

Min(S) == CHOOSE x \in S : \A y \in S : x <= y

\* clamping by Python of a slice bound b against a string of length n
Clamp(b, n) ==
    LET a == IF b < 0 THEN b + n ELSE b
    IN  IF a < 0 THEN 0 ELSE IF a > n THEN n ELSE a

\* s[:stop]
SliceTo(s, stop) == SubSeq(s, 1, Clamp(stop, Len(s)))

\* s[start:]
SliceFrom(s, start) == SubSeq(s, Clamp(start, Len(s)) + 1, Len(s))

\* s.find(sub): 0-based offset of the first occurrence, or -1
find(s, sub) ==
    LET hits == {i \in 0..(Len(s) - Len(sub)) :
                    SubSeq(s, i + 1, i + Len(sub)) = sub}
    IN  IF hits = {} THEN -1 ELSE Min(hits)

----------------------------------------------------------------------------
(* Chunk senders: the event each one serialises                            *)

send_start == [type |-> "start"]

send_token(token, idx) ==
    [type |-> "token", token |-> token, role |-> "assistant", index |-> idx]

send_code_start(language) == [type |-> "code_start", language |-> language]

send_code_end == [type |-> "code_end"]

send_done == [type |-> "done", finish_reason |-> "stop"]

\* send_error with the message of the exception replaced by a fixed text
send_error_generic(error) ==
    [type |-> "error", error |-> "internal error", code |-> "internal_error"]

send_error(error) ==
    [type |-> "error", error |-> error, code |-> "internal_error"]

----------------------------------------------------------------------------
(* Token processor.  Both operators return the events yielded by the call  *)
(* (out) and the buffer and state dict the call leaves behind.             *)

\* _handle_buffer_content emitting the whole window when the identifier is
\* not found, although it keeps the tail of the window for the next call
handle_buffer_content_reemit(buf, content, idx, st, identifier, identifier_size, is_start) ==
    IF Len(content) < identifier_size
    THEN [out |-> <<>>, buffer |-> buf, state |-> st]
    ELSE LET i == find(content, identifier)
         IN  IF i # -1
             THEN [out |-> <<send_token(SliceTo(content, i), idx),
                             IF is_start THEN send_code_start("python")
                                         ELSE send_code_end>>,
                   buffer |-> IF i + identifier_size < Len(content)
                              THEN SliceFrom(content, i + identifier_size)
                              ELSE <<>>,
                   state |-> IF is_start
                             THEN [st EXCEPT !.code_block_open = TRUE]
                             ELSE [st EXCEPT !.code_block_open = FALSE,
                                             !.has_found_code = TRUE]]
             ELSE [out |-> <<send_token(content, idx)>>,
                   buffer |-> SliceFrom(content, -(identifier_size - 1)),
                   state |-> st]

\* _handle_buffer_content leaving code_block_open set at the close marker
handle_buffer_content_stays_open(buf, content, idx, st, identifier, identifier_size, is_start) ==
    IF Len(content) < identifier_size
    THEN [out |-> <<>>, buffer |-> buf, state |-> st]
    ELSE LET i == find(content, identifier)
         IN  IF i # -1
             THEN [out |-> <<send_token(SliceTo(content, i), idx),
                             IF is_start THEN send_code_start("python")
                                         ELSE send_code_end>>,
                   buffer |-> IF i + identifier_size < Len(content)
                              THEN SliceFrom(content, i + identifier_size)
                              ELSE <<>>,
                   state |-> IF is_start
                             THEN [st EXCEPT !.code_block_open = TRUE]
                             ELSE [st EXCEPT !.has_found_code = TRUE]]
             ELSE [out |-> <<send_token(
                               SliceTo(content, -(identifier_size - 1)),
                               idx)>>,
                   buffer |-> SliceFrom(content, -(identifier_size - 1)),
                   state |-> st]

\* _handle_buffer_content keeping identifier_size characters, one too many,
\* when the identifier is not found
handle_buffer_content_keep_size(buf, content, idx, st, identifier, identifier_size, is_start) ==
    IF Len(content) < identifier_size
    THEN [out |-> <<>>, buffer |-> buf, state |-> st]
    ELSE LET i == find(content, identifier)
         IN  IF i # -1
             THEN [out |-> <<send_token(SliceTo(content, i), idx),
                             IF is_start THEN send_code_start("python")
                                         ELSE send_code_end>>,
                   buffer |-> IF i + identifier_size < Len(content)
                              THEN SliceFrom(content, i + identifier_size)
                              ELSE <<>>,
                   state |-> IF is_start
                             THEN [st EXCEPT !.code_block_open = TRUE]
                             ELSE [st EXCEPT !.code_block_open = FALSE,
                                             !.has_found_code = TRUE]]
             ELSE [out |-> <<send_token(
                               SliceTo(content, -identifier_size), idx)>>,
                   buffer |-> SliceFrom(content, -identifier_size),
                   state |-> st]

handle_buffer_content(buf, content, idx, st, identifier, identifier_size, is_start) ==
    IF Len(content) < identifier_size
    THEN [out |-> <<>>, buffer |-> buf, state |-> st]
    ELSE LET i == find(content, identifier)
         IN  IF i # -1
             THEN [out |-> <<send_token(SliceTo(content, i), idx),
                             IF is_start THEN send_code_start("python")
                                         ELSE send_code_end>>,
                   buffer |-> IF i + identifier_size < Len(content)
                              THEN SliceFrom(content, i + identifier_size)
                              ELSE <<>>,
                   state |-> IF is_start
                             THEN [st EXCEPT !.code_block_open = TRUE]
                             ELSE [st EXCEPT !.code_block_open = FALSE,
                                             !.has_found_code = TRUE]]
             ELSE [out |-> <<send_token(
                               SliceTo(content, -(identifier_size - 1)),
                               idx)>>,
                   buffer |-> SliceFrom(content, -(identifier_size - 1)),
                   state |-> st]

\* process_token looking for the open marker whatever code_block_open is
process_token_open_only(buf, token, idx, st) ==
    IF st.has_found_code
    THEN [out |-> <<send_token(token, idx)>>, buffer |-> buf, state |-> st]
    ELSE LET recent_str == buf \o token
         IN  handle_buffer_content(recent_str, recent_str, idx, st,
                 OpenMarker, CODE_START_IDENTIFIER_SIZE, TRUE)

\* process_token clearing the buffer on its early return
process_token_clears(buf, token, idx, st) ==
    IF st.has_found_code
    THEN [out |-> <<send_token(token, idx)>>, buffer |-> <<>>, state |-> st]
    ELSE LET recent_str == buf \o token
         IN  IF st.code_block_open
             THEN handle_buffer_content(recent_str, recent_str, idx, st,
                      CloseMarker, CODE_END_IDENTIFIER_SIZE, FALSE)
             ELSE handle_buffer_content(recent_str, recent_str, idx, st,
                      OpenMarker, CODE_START_IDENTIFIER_SIZE, TRUE)

\* process_token without the early return on has_found_code
process_token_rescan(buf, token, idx, st) ==
    LET recent_str == buf \o token
    IN  IF st.code_block_open
        THEN handle_buffer_content(recent_str, recent_str, idx, st,
                 CloseMarker, CODE_END_IDENTIFIER_SIZE, FALSE)
        ELSE handle_buffer_content(recent_str, recent_str, idx, st,
                 OpenMarker, CODE_START_IDENTIFIER_SIZE, TRUE)

process_token(buf, token, idx, st) ==
    IF st.has_found_code
    THEN [out |-> <<send_token(token, idx)>>, buffer |-> buf, state |-> st]
    ELSE LET recent_str == buf \o token
         IN  IF st.code_block_open
             THEN handle_buffer_content(recent_str, recent_str, idx, st,
                      CloseMarker, CODE_END_IDENTIFIER_SIZE, FALSE)
             ELSE handle_buffer_content(recent_str, recent_str, idx, st,
                      OpenMarker, CODE_START_IDENTIFIER_SIZE, TRUE)

----------------------------------------------------------------------------
(* The upstream source: what client.chat_completion yields.  A chunk either *)
(* carries a text delta (possibly empty), carries None, or is malformed so  *)
(* that chunk.choices[0].delta.content raises.                              *)

Text(c) == [kind |-> "text", content |-> c]
NoneChunk == [kind |-> "none", content |-> <<>>]
NoChoices == [kind |-> "index_error", content |-> <<>>]
NoDelta == [kind |-> "attribute_error", content |-> <<>>]

HereIs == <<"H", "e", "r", "e", " ", "i", "s", " ">>
Code == <<"c", "o", "d", "e">>
More == <<"m", "o", "r", "e">>
NoCodeHere == <<"n", "o", " ", "c", "o", "d", "e", " ", "h", "e", "r", "e">>
AB == <<"a", "b">>

FencedFragments ==
    <<HereIs \o SubSeq(OpenMarker, 1, 9), <<"\n">> \o Code, CloseMarker \o More>>

FencedText == <<"a">> \o OpenMarker \o <<"b", "c">> \o CloseMarker \o <<"d">>

\* the fragments of text cut after each position of cuts, from position from on
RECURSIVE SplitAt(_, _, _)
SplitAt(text, cuts, from) ==
    LET later == {c \in cuts : c >= from}
    IN  IF later = {}
        THEN <<Text(SubSeq(text, from, Len(text)))>>
        ELSE <<Text(SubSeq(text, from, Min(later)))>>
                 \o SplitAt(text, cuts, Min(later) + 1)

\* every way of cutting text into at most n non-empty fragments
Splits(text, n) ==
    {SplitAt(text, cuts, 1) :
        cuts \in {c \in SUBSET (1..(Len(text) - 1)) : Cardinality(c) < n}}

Vocabulary ==
    {Text(OpenMarker), Text(CloseMarker), Text(AB), Text(OpenMarker \o AB),
     Text(CloseMarker \o AB), Text(<<>>), NoneChunk, NoChoices, NoDelta}

Scripts ==
    {<<Text(FencedFragments[1]), Text(FencedFragments[2]),
       Text(FencedFragments[3])>>,
     <<Text(NoCodeHere)>>,
     <<Text(OpenMarker \o NoCodeHere)>>}
    \cup Splits(OpenMarker, Len(OpenMarker))
    \cup Splits(FencedText, MaxPieces)
    \cup UNION {[1..n -> Vocabulary] : n \in 0..MaxChunks}

\* str(e) of the exceptions the upstream may raise
Messages == {"connection reset", "rate limited"}

----------------------------------------------------------------------------
(* generate_stream_response                                                *)

Init ==
    /\ pc = "init"
    /\ upstream \in Scripts
    /\ client = FALSE
    /\ index = 0
    /\ buffer = <<>>
    /\ state = [code_block_open |-> FALSE, has_found_code |-> FALSE]
    /\ events = <<>>
    /\ fed = <<>>
    /\ pulled = 0
    /\ exc = "none"
    /\ streams = <<>>

\* the generator without its first yield
SendStartMissing ==
    /\ pc = "init"
    /\ pc' = "client"
    /\ UNCHANGED <<upstream, client, index, buffer, state, events, fed,
                   pulled, exc,
                   streams>>

\* yield await send_start()
SendStart ==
    /\ pc = "init"
    /\ events' = Append(events, send_start)
    /\ pc' = "client"
    /\ UNCHANGED <<upstream, client, index, buffer, state, fed, pulled, exc,
                   streams>>

\* client = get_llm_client() and the initialisation of the locals
GetClient ==
    /\ pc = "client"
    /\ client' = TRUE
    /\ index' = 0
    /\ buffer' = <<>>
    /\ state' = [code_block_open |-> FALSE, has_found_code |-> FALSE]
    /\ pc' = "streaming"
    /\ UNCHANGED <<upstream, events, fed, pulled, exc,
                   streams>>

\* the loop body testing content against None only, so that an empty
\* string is processed
skipped_none_only(chunk) ==
    \/ chunk.kind \in {"attribute_error", "index_error"}
    \/ chunk.kind = "none"

\* the two continue statements of the loop body: reading
\* chunk.choices[0].delta.content raises, or the content is falsy
skipped(chunk) ==
    \/ chunk.kind \in {"attribute_error", "index_error"}
    \/ chunk.kind = "none" \/ chunk.content = <<>>

\* the loop body without its own index += 1, relying on the increment at
\* the end of process_token
NextChunkNoIncrement ==
    /\ pc = "streaming"
    /\ upstream # <<>>
    /\ LET chunk == Head(upstream)
       IN  /\ upstream' = Tail(upstream)
           /\ pulled' = pulled + 1
           /\ IF skipped(chunk)
              THEN UNCHANGED <<index, buffer, state, events, fed>>
              ELSE LET r == process_token(buffer, chunk.content, index, state)
                   IN  /\ events' = events \o r.out
                       /\ buffer' = r.buffer
                       /\ state' = r.state
                       /\ index' = index
                       /\ fed' = Append(fed, chunk.content)
    /\ UNCHANGED <<pc, client, exc, streams>>

\* one iteration of the async for loop
NextChunk ==
    /\ pc = "streaming"
    /\ upstream # <<>>
    /\ LET chunk == Head(upstream)
       IN  /\ upstream' = Tail(upstream)
           /\ pulled' = pulled + 1
           /\ IF skipped(chunk)
              THEN UNCHANGED <<index, buffer, state, events, fed>>
              ELSE LET r == process_token(buffer, chunk.content, index, state)
                   IN  /\ events' = events \o r.out
                       /\ buffer' = r.buffer
                       /\ state' = r.state
                       /\ index' = index + 1
                       /\ fed' = Append(fed, chunk.content)
    /\ UNCHANGED <<pc, client, exc, streams>>

\* the generator returning at the end of the loop without a done event
CompleteSilent ==
    /\ pc = "streaming"
    /\ upstream = <<>>
    /\ pc' = "returned"
    /\ UNCHANGED <<upstream, client, index, buffer, state, events, fed,
                   pulled, exc,
                   streams>>

\* the upstream iterator is exhausted: yield await send_done()
Complete ==
    /\ pc = "streaming"
    /\ upstream = <<>>
    /\ events' = Append(events, send_done)
    /\ pc' = "returned"
    /\ UNCHANGED <<upstream, client, index, buffer, state, fed, pulled, exc,
                   streams>>

\* get_llm_client or the upstream iterator raises: the except clause
Raise ==
    /\ pc \in {"client", "streaming"}
    /\ \E e \in Messages :
           /\ exc' = e
           /\ events' = Append(events, send_error(e))
    /\ pc' = "handled"
    /\ UNCHANGED <<upstream, client, index, buffer, state, fed, pulled,
                   streams>>

Next == SendStart \/ GetClient \/ NextChunk \/ Complete \/ Raise

Spec == Init /\ [][Next]_vars

----------------------------------------------------------------------------
(* Concurrent streams.  Every request calls generate_stream_response anew,  *)
(* and the event loop interleaves the calls at their await points.  A call  *)
(* is the record of its locals; the operators below are the statements of   *)
(* the generator as functions on that record.                               *)

StreamIds == {1, 2}

ConcScripts ==
    {<<Text(FencedFragments[1]), Text(FencedFragments[2]),
       Text(FencedFragments[3])>>,
     <<Text(OpenMarker \o AB), Text(CloseMarker \o AB), Text(OpenMarker \o AB)>>,
     <<Text(AB), NoneChunk, Text(OpenMarker), Text(AB)>>,
     <<Text(NoCodeHere), Text(CloseMarker)>>}

\* a call that has not run yet, with the chunks its upstream will yield
initial_locals(script) ==
    [pc |-> "init", upstream |-> script, taken |-> <<>>, index |-> 0,
     buffer |-> <<>>,
     state |-> [code_block_open |-> FALSE, has_found_code |-> FALSE],
     events |-> <<>>]

\* index, buffer and state reading the deque of the first call, as a
\* deque kept at module level would be
locals_shared_buffer(ss, s) == [ss[s] EXCEPT !.buffer = ss[1].buffer]

\* the locals a call works on: its own, created at chat.py:152-157
locals(ss, s) == ss[s]

\* yield await send_start()
started(r) == [r EXCEPT !.events = Append(@, send_start), !.pc = "client"]

\* client = get_llm_client() and the initialisation of the locals
created(r) ==
    [r EXCEPT !.pc = "streaming", !.index = 0, !.buffer = <<>>,
              !.state = [code_block_open |-> FALSE, has_found_code |-> FALSE]]

\* one iteration of the async for loop
advance(r) ==
    LET chunk == Head(r.upstream)
        next == [r EXCEPT !.upstream = Tail(@), !.taken = Append(@, chunk)]
    IN  IF skipped(chunk) THEN next
        ELSE LET t == process_token(r.buffer, chunk.content, r.index, r.state)
             IN  [next EXCEPT !.events = @ \o t.out, !.buffer = t.buffer,
                              !.state = t.state, !.index = @ + 1]

\* the upstream iterator is exhausted: yield await send_done()
completed(r) == [r EXCEPT !.events = Append(@, send_done), !.pc = "returned"]

ConcInit ==
    /\ pc = "init"
    /\ upstream = <<>>
    /\ client = FALSE
    /\ index = 0
    /\ buffer = <<>>
    /\ state = [code_block_open |-> FALSE, has_found_code |-> FALSE]
    /\ events = <<>>
    /\ fed = <<>>
    /\ pulled = 0
    /\ exc = "none"
    /\ \E scripts \in [StreamIds -> ConcScripts] :
           streams = [s \in StreamIds |-> initial_locals(scripts[s])]

Idle ==
    UNCHANGED <<pc, upstream, client, index, buffer, state, events, fed,
                pulled, exc>>

StreamStart(s) ==
    /\ streams[s].pc = "init"
    /\ streams' = [streams EXCEPT ![s] = started(locals(streams, s))]
    /\ Idle

StreamClient(s) ==
    /\ streams[s].pc = "client"
    /\ streams' = [streams EXCEPT ![s] = created(locals(streams, s))]
    /\ Idle

StreamChunk(s) ==
    /\ streams[s].pc = "streaming"
    /\ streams[s].upstream # <<>>
    /\ streams' = [streams EXCEPT ![s] = advance(locals(streams, s))]
    /\ Idle

StreamComplete(s) ==
    /\ streams[s].pc = "streaming"
    /\ streams[s].upstream = <<>>
    /\ streams' = [streams EXCEPT ![s] = completed(locals(streams, s))]
    /\ Idle

ConcNext ==
    \E s \in StreamIds :
        \/ StreamStart(s)
        \/ StreamClient(s)
        \/ StreamChunk(s)
        \/ StreamComplete(s)

ConcSpec == ConcInit /\ [][ConcNext]_vars

----------------------------------------------------------------------------
(* Observations on a stream, used to state the properties                  *)

Count(evs, t) == Cardinality({i \in DOMAIN evs : evs[i].type = t})

RECURSIVE Concat(_)
Concat(ss) == IF ss = <<>> THEN <<>> ELSE Head(ss) \o Concat(Tail(ss))

\* the text of the stream as a consumer sees it: the characters of the token
\* payloads in order, with a mark where a boundary event was emitted
RECURSIVE Flatten(_)
Flatten(evs) ==
    IF evs = <<>> THEN <<>>
    ELSE LET e == Head(evs)
         IN  (CASE e.type = "token" -> e.token
                [] e.type = "code_start" -> <<"<code_start>">>
                [] e.type = "code_end" -> <<"<code_end>">>
                [] OTHER -> <<>>) \o Flatten(Tail(evs))

\* text with its first open marker and the close marker matching it replaced
\* by boundary marks
Fenced(text) ==
    LET i == find(text, OpenMarker)
    IN  IF i = -1 THEN text
        ELSE LET rest == SubSeq(text, i + Len(OpenMarker) + 1, Len(text))
                 j == find(rest, CloseMarker)
             IN  SubSeq(text, 1, i) \o <<"<code_start>">> \o
                 (IF j = -1 THEN rest
                  ELSE SubSeq(rest, 1, j) \o <<"<code_end>">> \o
                       SubSeq(rest, j + Len(CloseMarker) + 1, Len(rest)))

\* the events with the index of a token dropped and adjacent tokens merged
RECURSIVE Merged(_)
Merged(evs) ==
    IF evs = <<>> THEN <<>>
    ELSE LET e == Head(evs)
             v == IF e.type = "token"
                  THEN [type |-> "token", token |-> e.token] ELSE e
             m == Merged(Tail(evs))
         IN  IF v.type = "token" /\ m # <<>> /\ Head(m).type = "token"
             THEN <<[type |-> "token", token |-> v.token \o Head(m).token]>>
                      \o Tail(m)
             ELSE <<v>> \o m

Terminals == {i \in DOMAIN events : events[i].type \in {"done", "error"}}

----------------------------------------------------------------------------
(* Properties                                                              *)

\* C1: when the stream ends with done, the token payloads and boundary
\* events, read in order, are the input text with its first open marker
\* replaced by code_start and the matching close marker by code_end,
\* whatever the chunking.
Completeness ==
    pc = "returned" => Flatten(events) = Fenced(Concat(fed))

\* C2: when the open marker has been fed in two or more fragments and the
\* upstream has nothing more, exactly one code_start was emitted and no
\* token carries a character.
ChunkBoundaryInvariance ==
    (Len(fed) >= 2 /\ Concat(fed) = OpenMarker /\ upstream = <<>>)
        => /\ Count(events, "code_start") = 1
           /\ \A i \in DOMAIN events :
                 events[i].type = "token" => events[i].token = <<>>

\* C3: at most one of done and error is ever emitted and nothing follows
\* it; a stream that has ended has emitted exactly one of them, and on
\* normal completion it is done with finish_reason stop.
TerminalCardinality ==
    /\ Cardinality(Terminals) <= 1
    /\ \A i \in Terminals : i = Len(events)
    /\ pc \in {"returned", "handled"} => Cardinality(Terminals) = 1
    /\ pc = "returned" =>
           events[Len(events)] = [type |-> "done", finish_reason |-> "stop"]

TerminalCardinalityWitness ==
    /\ pc = "returned"
    /\ Count(events, "token") > 0
    /\ Count(events, "done") = 1

\* C4: no code_start or code_end follows a code_end, and has_found_code is
\* true exactly when a code_end has been emitted.
AtMostOneFence ==
    /\ \A i, j \in DOMAIN events :
          (i < j /\ events[i].type = "code_end")
              => events[j].type \notin {"code_start", "code_end"}
    /\ state.has_found_code = (Count(events, "code_end") > 0)

\* a fragment holding a whole open marker and more was fed after code_end
AtMostOneFenceWitness ==
    \E i, j \in DOMAIN events :
        /\ i < j
        /\ events[i].type = "code_end"
        /\ events[j].type = "token"
        /\ find(events[j].token, OpenMarker) # -1
        /\ Len(events[j].token) > Len(OpenMarker)

\* C5: between process_token calls the buffer holds at most 10 characters.
BoundedMemory == Len(buffer) <= 10

\* C6: the fragments of the fenced scenario followed by normal completion
\* give start, token "Here is ", code_start python, token "code", code_end,
\* token "more", done stop, once adjacent tokens are merged.
FencedScenario ==
    (pc = "returned" /\ fed = FencedFragments)
        => Merged(events) =
               <<[type |-> "start"],
                 [type |-> "token", token |-> HereIs],
                 [type |-> "code_start", language |-> "python"],
                 [type |-> "token", token |-> Code],
                 [type |-> "code_end"],
                 [type |-> "token", token |-> More],
                 [type |-> "done", finish_reason |-> "stop"]>>

\* C7: when a stream without any marker ends with done, the token payloads
\* concatenate to the whole input; the fragment "no code here" alone gives
\* start, token "no code here", done stop.
PlainStream ==
    (/\ pc = "returned"
     /\ find(Concat(fed), OpenMarker) = -1
     /\ find(Concat(fed), CloseMarker) = -1)
        => /\ Flatten(events) = Concat(fed)
           /\ fed = <<NoCodeHere>> =>
                  Merged(events) =
                      <<[type |-> "start"],
                        [type |-> "token", token |-> NoCodeHere],
                        [type |-> "done", finish_reason |-> "stop"]>>

\* C8: the step in which the exception is caught appends one error event
\* with the message of the exception and code internal_error to the events
\* emitted so far, the stream then holds one error and no done, and no
\* later step emits anything.
ErrorPath ==
    [][/\ (pc # "handled" /\ pc' = "handled") =>
              /\ events' = Append(events, [type |-> "error", error |-> exc',
                                           code |-> "internal_error"])
              /\ exc' \in Messages
              /\ Count(events', "error") = 1
              /\ Count(events', "done") = 0
       /\ pc = "handled" => (events' = events /\ pc' = "handled")]_vars

\* the upstream raised after tokens had been emitted
ErrorPathWitness ==
    /\ pc = "handled"
    /\ Count(events, "token") > 0
    /\ events[Len(events)].type = "error"

\* C9: the first event of a stream is start and there is no other start;
\* start has been emitted once the generator is past its first statement,
\* hence before the client exists and before any fragment is processed.
StartFirst ==
    /\ events # <<>> => events[1].type = "start"
    /\ Count(events, "start") <= 1
    /\ pc # "init" => Count(events, "start") = 1
    /\ (client \/ fed # <<>> \/ pulled > 0) => Count(events, "start") = 1

StartFirstWitness ==
    /\ pc = "returned"
    /\ client
    /\ fed # <<>>
    /\ events[1].type = "start"

\* C10: a loop iteration whose chunk has no reachable or no non-empty
\* content emits nothing, leaves buffer, flags and index as they were and
\* stays in the loop.
SkippedFragments ==
    [][(/\ pc = "streaming"
        /\ upstream # <<>>
        /\ upstream' = Tail(upstream)
        /\ \/ Head(upstream).kind \in {"none", "attribute_error", "index_error"}
           \/ Head(upstream).content = <<>>)
          => /\ events' = events
             /\ buffer' = buffer
             /\ state' = state
             /\ index' = index
             /\ pc' = "streaming"]_vars

\* a chunk was skipped while the buffer held text and index had advanced
SkippedFragmentsWitness ==
    /\ pc = "streaming"
    /\ pulled > Len(fed)
    /\ index > 0
    /\ buffer # <<>>

\* the events a step has appended
Emitted == SubSeq(events', Len(events) + 1, Len(events'))

\* C11: index starts at 0 and counts the fragments processed so far; a
\* step emits at most one token, which carries the number of fragments
\* processed before it, and the index values of the tokens of a stream
\* are strictly increasing.
TokenIndex ==
    /\ index = 0
    /\ [][/\ index' = Len(fed')
          /\ Cardinality({i \in DOMAIN Emitted :
                             Emitted[i].type = "token"}) <= 1
          /\ \A i \in DOMAIN Emitted :
                Emitted[i].type = "token" =>
                    /\ Emitted[i].index = Len(fed)
                    /\ Len(fed') = Len(fed) + 1
          /\ \A i, j \in DOMAIN events' :
                (/\ i < j
                 /\ events'[i].type = "token"
                 /\ events'[j].type = "token")
                    => events'[i].index < events'[j].index]_vars

\* two tokens were emitted and a skipped chunk came in between fragments
TokenIndexWitness ==
    /\ Count(events, "token") >= 2
    /\ index >= 2
    /\ pulled > index

\* the step is a loop iteration that hands a fragment to process_token
Processes ==
    /\ pc = "streaming"
    /\ upstream # <<>>
    /\ upstream' = Tail(upstream)
    /\ Head(upstream).kind = "text"
    /\ Head(upstream).content # <<>>

\* the window of that call: the lookback followed by the fragment
Window == buffer \o Head(upstream).content

\* the marker that call looks for
ActiveMarker == IF state.code_block_open THEN CloseMarker ELSE OpenMarker

TokenEvent(payload, idx) ==
    [type |-> "token", token |-> payload, role |-> "assistant",
     index |-> idx]

\* C12: a call whose window holds the active marker at offset i emits a
\* token for the window up to i, then code_start python or code_end, sets
\* the flags, and leaves in the lookback exactly the characters of the
\* window that follow the marker occurrence.
MarkerFoundStep ==
    [][(/\ Processes
        /\ ~state.has_found_code
        /\ find(Window, ActiveMarker) # -1)
          => LET i == find(Window, ActiveMarker)
             IN  /\ events' = events \o
                       <<TokenEvent(SubSeq(Window, 1, i), index),
                         IF state.code_block_open
                         THEN [type |-> "code_end"]
                         ELSE [type |-> "code_start", language |-> "python"]>>
                 /\ state' = IF state.code_block_open
                             THEN [code_block_open |-> FALSE,
                                   has_found_code |-> TRUE]
                             ELSE [code_block_open |-> TRUE,
                                   has_found_code |-> FALSE]
                 /\ buffer' = SubSeq(Window, i + Len(ActiveMarker) + 1,
                                     Len(Window))]_vars

\* C13: a call whose window does not hold the active marker, the marker
\* length being 11 for the open and 4 for the close marker, emits nothing
\* and keeps the whole window when the window is shorter than the marker
\* length, and otherwise emits one token for the window without its last
\* marker length - 1 characters and keeps those; the flags do not change.
MarkerNotFoundStep ==
    [][(/\ Processes
        /\ ~state.has_found_code
        /\ find(Window, ActiveMarker) = -1)
          => LET n == IF state.code_block_open THEN 4 ELSE 11
                 keep == Len(Window) - (n - 1)
             IN  /\ state' = state
                 /\ IF Len(Window) < n
                    THEN events' = events /\ buffer' = Window
                    ELSE /\ events' = Append(events,
                               TokenEvent(SubSeq(Window, 1, keep), index))
                         /\ buffer' = SubSeq(Window, keep + 1, Len(Window))
                         /\ Len(buffer') = n - 1]_vars

\* a window of 11 characters or more without the open marker was scanned
MarkerNotFoundStepWitness ==
    /\ pc = "streaming"
    /\ ~state.code_block_open /\ ~state.has_found_code
    /\ Count(events, "code_start") = 0
    /\ Count(events, "token") > 0
    /\ Len(buffer) = 10

\* C14: a call entered with has_found_code true emits one token carrying
\* the fragment as it is and leaves the buffer and the flags as they were.
TerminalFastPath ==
    [][(Processes /\ state.has_found_code)
          => /\ events' = Append(events,
                              TokenEvent(Head(upstream).content, index))
             /\ buffer' = buffer
             /\ state' = state]_vars

\* a fragment was passed through after code_end while the buffer held text
TerminalFastPathWitness ==
    /\ state.has_found_code
    /\ buffer # <<>>
    /\ events[Len(events)].type = "token"
    /\ events[Len(events)].token = OpenMarker \o AB

\* the characters of the token payloads, in emission order
RECURSIVE TokenText(_)
TokenText(evs) ==
    IF evs = <<>> THEN <<>>
    ELSE (IF Head(evs).type = "token" THEN Head(evs).token ELSE <<>>)
             \o TokenText(Tail(evs))

\* a is b with some of its positions left out
RECURSIVE IsSubsequence(_, _)
IsSubsequence(a, b) ==
    IF a = <<>> THEN TRUE
    ELSE IF b = <<>> THEN FALSE
    ELSE IF Head(a) = Head(b) THEN IsSubsequence(Tail(a), Tail(b))
    ELSE IsSubsequence(a, Tail(b))

\* C15: the token payloads, concatenated in emission order, are the
\* concatenated input fragments with some positions left out: nothing is
\* emitted twice or out of order.
NoDuplication == IsSubsequence(TokenText(events), Concat(fed))

\* a fenced stream was cut in three fragments and ran to its end
NoDuplicationWitness ==
    /\ pc = "returned"
    /\ Len(fed) >= 3
    /\ Count(events, "code_end") = 1
    /\ TokenText(events) # <<>>
    /\ Len(TokenText(events)) < Len(Concat(fed))

\* C16: the two flags are never both true; has_found_code becomes true
\* only in a step that emits code_end and takes code_block_open from true
\* to false; once true it stays true and code_block_open stays false.
FlagInvariant ==
    /\ ~(state.code_block_open /\ state.has_found_code)
    /\ [][/\ ~(state'.code_block_open /\ state'.has_found_code)
          /\ (~state.has_found_code /\ state'.has_found_code)
                => /\ state.code_block_open
                   /\ ~state'.code_block_open
                   /\ \E i \in DOMAIN Emitted : Emitted[i].type = "code_end"
          /\ state.has_found_code
                => (state'.has_found_code /\ ~state'.code_block_open)]_vars

\* a fragment was processed after the close marker had been found
FlagInvariantWitness ==
    /\ state.has_found_code
    /\ ~state.code_block_open
    /\ events[Len(events)].type = "token"
    /\ index >= 3

IsBoundary(e) == e.type \in {"code_start", "code_end"}

\* C17: the boundary events of a stream are none, code_start, or code_start
\* followed by code_end, and no step emits more than one of them.
WellBracketed ==
    [][/\ LET b == SelectSeq(events', IsBoundary)
          IN  \/ b = <<>>
              \/ Len(b) = 1 /\ b[1].type = "code_start"
              \/ Len(b) = 2 /\ b[1].type = "code_start"
                            /\ b[2].type = "code_end"
       /\ Len(SelectSeq(Emitted, IsBoundary)) <= 1]_vars

\* both boundaries were emitted and marker text was fed afterwards
WellBracketedWitness ==
    /\ Count(events, "code_start") = 1
    /\ Count(events, "code_end") = 1
    /\ events[Len(events)].type = "token"
    /\ find(events[Len(events)].token, CloseMarker) # -1

\* the call that is given script, run with no other call, after n chunks
RECURSIVE Alone(_, _)
Alone(script, n) ==
    IF n = 0 THEN created(started(initial_locals(script)))
    ELSE advance(Alone(script, n - 1))

\* C18: whatever the interleaving, after every step each call that is in
\* or past its loop has the events, buffer, flags and index it has when it
\* runs alone on the same chunks, and a step changes the locals of one
\* call only.
StreamIsolation ==
    [][/\ \A s \in StreamIds :
             LET r == streams'[s]
                 a == Alone(r.taken \o r.upstream, Len(r.taken))
             IN  /\ r.pc = "streaming" => r = a
                 /\ r.pc = "returned" => r = completed(a)
       /\ Cardinality({s \in StreamIds : streams'[s] # streams[s]}) <= 1]_vars

\* both calls are in their loops after at least one fragment each, with
\* different text in their buffers and chunks still to come
StreamIsolationWitness ==
    /\ streams # <<>>
    /\ \A s \in StreamIds :
          /\ streams[s].pc = "streaming"
          /\ streams[s].buffer # <<>>
          /\ streams[s].upstream # <<>>
          /\ streams[s].index >= 1
    /\ streams[1].buffer # streams[2].buffer

============================================================================
